---- MODULE Spec2Model ----
(***************************************************************************)
(* LowerDmaStartToPulpMchan (xdsl/transforms/experimental/                 *)
(* memref_dma_to_pulp.py): the rewrite pattern that lowers one             *)
(* memref.dma_start operation to calls into the PULP mchan driver.         *)
(*                                                                         *)
(* An SSA value is a pair: <<"src", i>>, <<"dest", i>>, <<"num", i>> are   *)
(* the block arguments used as operands of the i-th memref.dma_start,      *)
(* <<"res", id>> is the single result of the operation with that id.       *)
(***************************************************************************)
EXTENDS Integers, Sequences, FiniteSets, TLC

VARIABLES
    prog,       \* the block: the sequence of operations of the program
    prog0,      \* the block as it was before the pass ran
    typ,        \* typ[i].src, typ[i].dest: op.src.typ, op.dest.typ of dma_start i
    created,    \* created[i]: the operation objects constructed while rewriting i
    nextId,     \* identity of the next operation object to be constructed
    pc,         \* position of the pass / of the running match_and_rewrite
    cur,        \* id of the matched operation (0: none yet)
    newOps,     \* newOps[i]: the list passed to replace_matched_op for i
    newResults, \* newResults[i]: the new_results passed for i
    outcome,    \* outcome[i]: "none", "success" or "PreconditionFailure"
    rewrites,   \* rewrites[i]: how many times dma_start i was rewritten
    dirA, dirB, \* the two memory-space tags given to the direction check
    dirDone,    \* whether the direction of (dirA, dirB) has been computed
    dirAB,      \* value of the emitted comparison for tags (dirA, dirB)
    dirBA       \* value of the emitted comparison for tags (dirB, dirA)

vars == <<prog, prog0, typ, created, nextId, pc, cur, newOps, newResults,
          outcome, rewrites, dirA, dirB, dirDone, dirAB, dirBA>>

progVars == <<prog, prog0, typ, created, nextId, pc, cur, newOps, newResults,
              outcome, rewrites>>

dirVars == <<dirA, dirB, dirDone, dirAB, dirBA>>

----------------------------------------------------------------------------
(* Bounds of the model *)

MaxCopies == 2     \* memref.dma_start operations in the input program
MaxUses == 1       \* the dma_start results have no use, or MaxUses uses each
MaxTag == 1        \* memory-space tags of the input program are 0..MaxTag
IndexWidth == 3    \* bit width of the index type on the target

----------------------------------------------------------------------------
(* IR data *)

Op(id, name, callee, operands, results, value, predicate) ==
    [id |-> id, name |-> name, callee |-> callee, operands |-> operands,
     results |-> results, value |-> value, predicate |-> predicate]

Res(id) == <<"res", id>>

\* MemRefType with an IntegerAttr memory space, MemRefType with another
\* memory space attribute, and a type that is no MemRefType.
MemRefInt(t) == [kind |-> "memref", space |-> "IntegerAttr", value |-> t]
MemRefNoSpace == [kind |-> "memref", space |-> "NoneAttr", value |-> 0]
NotMemRef == [kind |-> "tensor", space |-> "NoneAttr", value |-> 0]

Types == {MemRefInt(t) : t \in 0..MaxTag} \cup {MemRefNoSpace, NotMemRef}

DmaStart(i) ==
    Op(i, "memref.dma_start", "", <<<<"src", i>>, <<"dest", i>>, <<"num", i>>>>,
       <<"i32">>, 0, "")

UseId(n, i, k) == n + (i - 1) * MaxUses + k

UseOp(n, i, k) == Op(UseId(n, i, k), "test.use", "", <<Res(i)>>, <<>>, 0, "")

RECURSIVE Block(_, _, _)
Block(n, nuses, i) ==
    IF i > n THEN <<>>
    ELSE <<DmaStart(i)>> \o [k \in 1..nuses[i] |-> UseOp(n, i, k)]
         \o Block(n, nuses, i + 1)

IsDmaStart(o) == o.name = "memref.dma_start"

Positions(p, id) == {k \in 1..Len(p) : p[k].id = id}

OpAt(p, id) == p[CHOOSE k \in Positions(p, id) : TRUE]

----------------------------------------------------------------------------
(* match_and_rewrite: the four assertions *)

\* Variant: the source check also demands a truthy (non-zero) tag.
SrcOk_TruthyTag(t) ==
    t.src.kind = "memref" /\ t.src.space = "IntegerAttr" /\ t.src.value # 0

\* assert isa(op.src.typ, MemRefType[Attribute]);
\* assert isa(op.src.typ.memory_space, IntegerAttr)
SrcOk(t) == t.src.kind = "memref" /\ t.src.space = "IntegerAttr"

\* Variant: the two assertions on the destination are missing.
DestOk_Unchecked(t) == TRUE

\* assert isa(op.dest.typ, MemRefType[Attribute]);
\* assert isa(op.dest.typ.memory_space, IntegerAttr)
DestOk(t) == t.dest.kind = "memref" /\ t.dest.space = "IntegerAttr"

----------------------------------------------------------------------------
(* match_and_rewrite: the operations it constructs *)

\* Variant: one call operation, built once, is reused by every rewrite.
TransferId_Shared(id) ==
    Op(0, "func.call", "mchan_transfer_get_id", <<>>, <<"i32">>, 0, "")

\* transfer_id := func.Call.get("mchan_transfer_get_id", [], [i32])
TransferId(id) ==
    Op(id, "func.call", "mchan_transfer_get_id", <<>>, <<"i32">>, 0, "")

\* src_memory_space := arith.Constant.from_int_and_width(
\*     op.src.typ.memory_space.value, IndexType())
SrcMemorySpace(id, t) ==
    Op(id, "arith.constant", "", <<>>, <<"index">>, t.src.value, "")

\* dest_memory_space := arith.Constant.from_int_and_width(
\*     op.dest.typ.memory_space.value, IndexType())
DestMemorySpace(id, t) ==
    Op(id, "arith.constant", "", <<>>, <<"index">>, t.dest.value, "")

\* Variant: the operands of the comparison are exchanged.
TransferDirection_Swapped(id, srcSpace, destSpace) ==
    Op(id, "arith.cmpi", "", <<Res(destSpace.id), Res(srcSpace.id)>>, <<"i1">>,
       0, "ugt")

\* Variant: the comparison is unsigned greater-or-equal.
TransferDirection_Uge(id, srcSpace, destSpace) ==
    Op(id, "arith.cmpi", "", <<Res(srcSpace.id), Res(destSpace.id)>>, <<"i1">>,
       0, "uge")

\* transfer_direction := arith.Cmpi.get(src_memory_space, dest_memory_space, "ugt")
TransferDirection(id, srcSpace, destSpace) ==
    Op(id, "arith.cmpi", "", <<Res(srcSpace.id), Res(destSpace.id)>>, <<"i1">>,
       0, "ugt")

\* memref.ExtractAlignedPointerAsIndexOp.get(op.src)
ExtractSrc(id, op) ==
    Op(id, "memref.extract_aligned_pointer_as_index", "", <<op.operands[1]>>,
       <<"index">>, 0, "")

\* memref.ExtractAlignedPointerAsIndexOp.get(op.dest)
ExtractDest(id, op) ==
    Op(id, "memref.extract_aligned_pointer_as_index", "", <<op.operands[2]>>,
       <<"index">>, 0, "")

\* Variant: source and destination address are exchanged.
PushCall_SwappedPtrs(id, op, direction, srcPtr, destPtr) ==
    Op(id, "func.call", "mchan_transfer_push_1d",
       <<op.operands[3], Res(direction.id), Res(destPtr.id), Res(srcPtr.id)>>,
       <<>>, 0, "")

\* func.Call.get("mchan_transfer_push_1d",
\*               [op.num_elements, transfer_direction, <extract src>, <extract dest>], [])
PushCall(id, op, direction, srcPtr, destPtr) ==
    Op(id, "func.call", "mchan_transfer_push_1d",
       <<op.operands[3], Res(direction.id), Res(srcPtr.id), Res(destPtr.id)>>,
       <<>>, 0, "")

\* Every operation object the argument expression of replace_matched_op
\* constructs, in the order Python evaluates it; id is the identity of the
\* first one.
Constructed(id, op, t) ==
    LET transfer_id == TransferId(id)
        src_memory_space == SrcMemorySpace(id + 1, t)
        dest_memory_space == DestMemorySpace(id + 2, t)
        transfer_direction ==
            TransferDirection(id + 3, src_memory_space, dest_memory_space)
        src_ptr == ExtractSrc(id + 4, op)
        dest_ptr == ExtractDest(id + 5, op)
        push == PushCall(id + 6, op, transfer_direction, src_ptr, dest_ptr)
    IN  <<transfer_id, src_memory_space, dest_memory_space, transfer_direction,
          src_ptr, dest_ptr, push>>

\* Variant: the push call is left out of the list.
ReplacementOps_NoPush(c) == <<c[1], c[2], c[3], c[4]>>

\* The list literal that is the first argument of replace_matched_op: the
\* two pointer extractions are constructed inside the argument list of the
\* push call and are not elements of the list.
ReplacementOps(c) == <<c[1], c[2], c[3], c[4], c[7]>>

\* Variant: the results of the last value-producing operation of the list
\* (the comparison) are passed instead of those of transfer_id.
ReplacementResults_Direction(c) == [k \in 1..Len(c[4].results) |-> Res(c[4].id)]

\* The second argument of replace_matched_op: transfer_id.results
ReplacementResults(c) == [k \in 1..Len(c[1].results) |-> Res(c[1].id)]

----------------------------------------------------------------------------
(* arith and the rewriter: what the emitted operations mean *)

Pow2(n) == 2 ^ n

\* An index constant is read as an unsigned integer of IndexWidth bits.
ToUnsigned(v) == v % Pow2(IndexWidth)

CmpiEval(predicate, x, y) ==
    CASE predicate = "ugt" -> ToUnsigned(x) > ToUnsigned(y)
      [] predicate = "uge" -> ToUnsigned(x) >= ToUnsigned(y)
      [] predicate = "ult" -> ToUnsigned(x) < ToUnsigned(y)
      [] OTHER -> FALSE

ConstValue(ops, v) == OpAt(ops, v[2]).value

\* The value the arith.cmpi of the list ops computes at run time.
CmpiValue(ops) ==
    LET c == ops[CHOOSE k \in 1..Len(ops) : ops[k].name = "arith.cmpi"]
    IN  CmpiEval(c.predicate, ConstValue(ops, c.operands[1]),
                 ConstValue(ops, c.operands[2]))

\* The direction value of the operations emitted for memory spaces a and b.
direction(a, b) ==
    CmpiValue(ReplacementOps(Constructed(1, DmaStart(1),
                  [src |-> MemRefInt(a), dest |-> MemRefInt(b)])))

ReplaceUses(p, old, new) ==
    [k \in 1..Len(p) |->
        [p[k] EXCEPT !.operands =
            [j \in 1..Len(p[k].operands) |->
                IF p[k].operands[j] = old THEN new ELSE p[k].operands[j]]]]

Splice(p, k, ops) == SubSeq(p, 1, k - 1) \o ops \o SubSeq(p, k + 1, Len(p))

\* PatternRewriter.replace_matched_op(new_ops, new_results, safe_erase=False):
\* the new operations are inserted at the place of the matched one, every
\* use of its result is replaced by the new result, the operation is erased.
ReplaceOp(p, id, ops, results) ==
    LET k == CHOOSE j \in Positions(p, id) : TRUE
    IN  ReplaceUses(Splice(p, k, ops), Res(id), results[1])

----------------------------------------------------------------------------
(* The pass *)

Range(s) == {s[k] : k \in 1..Len(s)}

IndexTags == (0 - Pow2(IndexWidth - 1)) .. (Pow2(IndexWidth) - 1)

DirIdle ==
    /\ dirA = 0 /\ dirB = 0
    /\ dirDone = FALSE /\ dirAB = FALSE /\ dirBA = FALSE

Init ==
    /\ \E n \in 1..MaxCopies :
        /\ typ \in [1..n -> [src : Types, dest : Types]]
        /\ \E u \in {0, MaxUses} :
            /\ prog0 = Block(n, [i \in 1..n |-> u], 1)
            /\ nextId = UseId(n, n, MaxUses) + 1
        /\ newOps = [i \in 1..n |-> <<>>]
        /\ newResults = [i \in 1..n |-> <<>>]
        /\ outcome = [i \in 1..n |-> "none"]
        /\ rewrites = [i \in 1..n |-> 0]
        /\ created = [i \in 1..n |-> {}]
    /\ prog = prog0
    /\ pc = "idle"
    /\ cur = 0
    /\ DirIdle

\* The rewrite engine presents one memref.dma_start of the program.
Match ==
    /\ pc = "idle"
    /\ \E k \in 1..Len(prog) :
        /\ IsDmaStart(prog[k])
        /\ cur' = prog[k].id
    /\ pc' = "assert_src"
    /\ UNCHANGED <<prog, prog0, typ, created, nextId, newOps, newResults,
                   outcome, rewrites>>
    /\ UNCHANGED dirVars

AssertSrc ==
    /\ pc = "assert_src"
    /\ IF SrcOk(typ[cur])
       THEN pc' = "assert_dest" /\ UNCHANGED outcome
       ELSE /\ pc' = "aborted"
            /\ outcome' = [outcome EXCEPT ![cur] = "PreconditionFailure"]
    /\ UNCHANGED <<prog, prog0, typ, created, nextId, cur, newOps, newResults,
                   rewrites>>
    /\ UNCHANGED dirVars

AssertDest ==
    /\ pc = "assert_dest"
    /\ IF DestOk(typ[cur])
       THEN pc' = "construct" /\ UNCHANGED outcome
       ELSE /\ pc' = "aborted"
            /\ outcome' = [outcome EXCEPT ![cur] = "PreconditionFailure"]
    /\ UNCHANGED <<prog, prog0, typ, created, nextId, cur, newOps, newResults,
                   rewrites>>
    /\ UNCHANGED dirVars

\* Evaluation of the arguments of replace_matched_op.
Construct ==
    /\ pc = "construct"
    /\ LET c == Constructed(nextId, OpAt(prog, cur), typ[cur])
       IN  /\ created' = [created EXCEPT ![cur] = @ \cup Range(c)]
           /\ newOps' = [newOps EXCEPT ![cur] = ReplacementOps(c)]
           /\ newResults' = [newResults EXCEPT ![cur] = ReplacementResults(c)]
    /\ nextId' = nextId + Len(Constructed(nextId, OpAt(prog, cur), typ[cur]))
    /\ pc' = "replace"
    /\ UNCHANGED <<prog, prog0, typ, cur, outcome, rewrites>>
    /\ UNCHANGED dirVars

\* rewriter.replace_matched_op(<list>, transfer_id.results, False)
ReplaceMatchedOp ==
    /\ pc = "replace"
    /\ prog' = ReplaceOp(prog, cur, newOps[cur], newResults[cur])
    /\ outcome' = [outcome EXCEPT ![cur] = "success"]
    /\ rewrites' = [rewrites EXCEPT ![cur] = @ + 1]
    /\ pc' = "idle"
    /\ UNCHANGED <<prog0, typ, created, nextId, cur, newOps, newResults>>
    /\ UNCHANGED dirVars

\* Nothing matches any more: the pass ends.
Finish ==
    /\ pc = "idle"
    /\ \A k \in 1..Len(prog) : ~IsDmaStart(prog[k])
    /\ pc' = "done"
    /\ UNCHANGED <<prog, prog0, typ, created, nextId, cur, newOps, newResults,
                   outcome, rewrites>>
    /\ UNCHANGED dirVars

Next ==
    \/ Match
    \/ AssertSrc
    \/ AssertDest
    \/ Construct
    \/ ReplaceMatchedOp
    \/ Finish

Spec == Init /\ [][Next]_vars

----------------------------------------------------------------------------
(* The direction value as a function of the two tags *)

InitDir ==
    /\ dirA \in IndexTags
    /\ dirB \in IndexTags
    /\ dirDone = FALSE /\ dirAB = FALSE /\ dirBA = FALSE
    /\ prog = <<>> /\ prog0 = <<>> /\ typ = <<>>
    /\ created = <<>> /\ nextId = 1 /\ pc = "done" /\ cur = 0
    /\ newOps = <<>> /\ newResults = <<>> /\ outcome = <<>> /\ rewrites = <<>>

Resolve ==
    /\ ~dirDone
    /\ dirDone' = TRUE
    /\ dirAB' = direction(dirA, dirB)
    /\ dirBA' = direction(dirB, dirA)
    /\ UNCHANGED <<dirA, dirB>>
    /\ UNCHANGED progVars

NextDir == Resolve

DirSpec == InitDir /\ [][NextDir]_vars

----------------------------------------------------------------------------
(* Vocabulary of the properties *)

Copies == DOMAIN typ

HasIntegerTag(ty) == ty.kind = "memref" /\ ty.space = "IntegerAttr"

Valid(i) == HasIntegerTag(typ[i].src) /\ HasIntegerTag(typ[i].dest)

Lowered(i) == outcome[i] = "success"

Kind(o) ==
    CASE o.name = "func.call" /\ o.callee = "mchan_transfer_get_id" -> "slot_alloc"
      [] o.name = "func.call" /\ o.callee = "mchan_transfer_push_1d" -> "push"
      [] o.name = "arith.constant" -> "constant"
      [] o.name = "arith.cmpi" -> "compare"
      [] o.name = "memref.extract_aligned_pointer_as_index" -> "extract"
      [] o.name = "memref.dma_start" -> "copy"
      [] OTHER -> "other"

Kinds(ops) == [k \in 1..Len(ops) |-> Kind(ops[k])]

Ids(ops) == {o.id : o \in ops}

Uses(p, v) == {k \in 1..Len(p) : v \in Range(p[k].operands)}

Count(p, kind) == Cardinality({k \in 1..Len(p) : Kind(p[k]) = kind})

\* dma_start i and every user of its result are in the program as they
\* were before the pass.
Untouched(i) ==
    /\ \E k \in 1..Len(prog) : prog[k] = DmaStart(i)
    /\ \A k \in Uses(prog0, Res(i)) : \E m \in 1..Len(prog) : prog[m] = prog0[k]

----------------------------------------------------------------------------
(* C1: for every dma_start that was lowered, the list handed to the        *)
(* rewriter consists of exactly seven operations: the slot-allocation      *)
(* call, two constants, the comparison, two address extractions and the    *)
(* push call, in that order.                                               *)
C1_SequenceShape ==
    \A i \in Copies :
        Lowered(i) =>
            Kinds(newOps[i]) = <<"slot_alloc", "constant", "constant",
                                 "compare", "extract", "extract", "push">>

(* C2: a dma_start whose source or destination type carries no integer     *)
(* memory space ends in PreconditionFailure; nothing is constructed or     *)
(* handed over for it, no use is rebound and the operation stays as it     *)
(* was; while the two checks run nothing has been constructed.             *)
C2_PreconditionGating ==
    /\ \A i \in Copies :
        ~Valid(i) =>
            /\ outcome[i] \in {"none", "PreconditionFailure"}
            /\ created[i] = {} /\ newOps[i] = <<>> /\ newResults[i] = <<>>
            /\ Untouched(i)
    /\ pc \in {"assert_src", "assert_dest", "aborted"} =>
            /\ created[cur] = {} /\ newOps[cur] = <<>> /\ newResults[cur] = <<>>
            /\ Untouched(cur)
    /\ pc \in {"construct", "replace"} => Valid(cur)
    /\ pc = "aborted" =>
            /\ ~Valid(cur)
            /\ outcome[cur] = "PreconditionFailure"
            /\ (\A j \in Copies : ~Lowered(j)) => prog = prog0

C2_Witness ==
    /\ pc = "aborted"
    /\ outcome[cur] = "PreconditionFailure"
    /\ HasIntegerTag(typ[cur].src)
    /\ ~HasIntegerTag(typ[cur].dest)
    /\ Uses(prog0, Res(cur)) # {}

(* C3: after a successful rewrite the new-results list is exactly the one  *)
(* result of the slot-allocation call (no operands, one i32 result); every *)
(* former user of the dma_start result reads that value, and no operand of *)
(* the program refers to the erased operation.                             *)
C3_ResultRebinding ==
    \A i \in Copies :
        Lowered(i) =>
            LET t == newOps[i][1]
            IN  /\ Kind(t) = "slot_alloc"
                /\ t.operands = <<>>
                /\ t.results = <<"i32">>
                /\ newResults[i] = <<Res(t.id)>>
                /\ \E m \in 1..Len(prog) : prog[m] = t
                /\ Uses(prog, Res(i)) = {}
                /\ \A k \in Uses(prog0, Res(i)) :
                    \E m \in 1..Len(prog) :
                        /\ prog[m].id = prog0[k].id
                        /\ prog[m].operands = <<Res(t.id)>>

C3_Witness ==
    \E i \in Copies : Lowered(i) /\ Uses(prog0, Res(i)) # {}

(* C4: the push call has no result and exactly four operands: the          *)
(* num_elements operand of the dma_start, the result of the comparison,    *)
(* the result of the address extraction of the source buffer and the       *)
(* result of the address extraction of the destination buffer.             *)
C4_ArgumentFidelity ==
    \A i \in Copies :
        Lowered(i) =>
            LET p == newOps[i][Len(newOps[i])]
            IN  /\ Kind(p) = "push"
                /\ Len(p.operands) = 4
                /\ p.results = <<>>
                /\ p.operands[1] = <<"num", i>>
                /\ \E c \in Range(newOps[i]) :
                    Kind(c) = "compare" /\ p.operands[2] = Res(c.id)
                /\ \E e \in created[i] :
                    /\ Kind(e) = "extract" /\ e.operands = <<<<"src", i>>>>
                    /\ p.operands[3] = Res(e.id)
                /\ \E e \in created[i] :
                    /\ Kind(e) = "extract" /\ e.operands = <<<<"dest", i>>>>
                    /\ p.operands[4] = Res(e.id)

C4_Witness ==
    \E i \in Copies : Lowered(i) /\ Count(prog, "push") > 0

C6_AntisymmetryAllIntegers ==
    dirDone =>
        /\ dirA # dirB => dirAB = ~dirBA
        /\ dirA = dirB => ~dirAB

(* C6 as amended: direction(a, b) is defined for every pair;               *)
(* direction(a, b) = ~direction(b, a) whenever a and b differ modulo       *)
(* 2^IndexWidth; it is false in both orders when they agree modulo         *)
(* 2^IndexWidth, in particular direction(a, a) = FALSE.                    *)
C6_AntisymmetryModuloWidth ==
    dirDone =>
        /\ dirAB \in BOOLEAN /\ dirBA \in BOOLEAN
        /\ (dirA - dirB) % Pow2(IndexWidth) # 0 => dirAB = ~dirBA
        /\ (dirA - dirB) % Pow2(IndexWidth) = 0 => ~dirAB /\ ~dirBA

C6_Witness ==
    /\ dirDone
    /\ dirA < 0 /\ dirB >= 0
    /\ dirAB /\ ~dirBA

(* C7: PreconditionFailure is the only failure and happens only to a       *)
(* dma_start that violates a precondition; once both checks have passed    *)
(* the invocation ends in success: the list and its one new result were    *)
(* handed over and the dma_start is replaced by the list.                  *)
C7_NoFailureAfterPreconditions ==
    /\ \A i \in Copies :
        /\ outcome[i] \in {"none", "success", "PreconditionFailure"}
        /\ outcome[i] = "PreconditionFailure" => ~Valid(i)
    /\ pc = "aborted" => ~Valid(cur)
    /\ (pc \in {"idle", "done"} /\ cur # 0) =>
        /\ Valid(cur)
        /\ Lowered(cur)
        /\ newOps[cur] # <<>>
        /\ Len(newResults[cur]) = 1
        /\ Positions(prog, cur) = {}
        /\ \A k \in 1..Len(newOps[cur]) :
            \E m \in 1..Len(prog) : prog[m] = newOps[cur][k]

C7_Witness ==
    /\ pc = "idle"
    /\ cur # 0
    /\ Valid(cur)
    /\ Lowered(cur)
    /\ typ[cur].src.value = 0

(* C8: in the list handed to the rewriter every operand of an operation   *)
(* is an operand of the dma_start (source, destination, num_elements) or   *)
(* the result of an operation that stands strictly earlier in the list.    *)
C8_DefinedBeforeUse ==
    \A i \in Copies :
        Lowered(i) =>
            \A k \in 1..Len(newOps[i]) :
                \A v \in Range(newOps[i][k].operands) :
                    \/ v \in {<<"src", i>>, <<"dest", i>>, <<"num", i>>}
                    \/ \E j \in 1..(k - 1) : v = Res(newOps[i][j].id)

(* C9: the rewrites of distinct dma_start operations are independent: no   *)
(* two of them share a constructed operation or a transfer identifier, a   *)
(* dma_start that has not been rewritten and its users are as before the   *)
(* pass whatever was rewritten in the meantime, and the list produced for  *)
(* a dma_start is, up to the identity of the fresh operations, a function  *)
(* of that dma_start alone.                                                *)
Relative(ops) ==
    LET b == ops[1].id
    IN  [k \in 1..Len(ops) |->
            [ops[k] EXCEPT
                !.id = @ - b,
                !.operands =
                    [j \in 1..Len(ops[k].operands) |->
                        IF ops[k].operands[j][1] = "res"
                        THEN Res(ops[k].operands[j][2] - b)
                        ELSE ops[k].operands[j]]]]

C10_Fixpoint ==
    /\ \A i \in Copies :
        /\ rewrites[i] <= 1
        /\ Lowered(i) <=> rewrites[i] = 1
        /\ Lowered(i) => Positions(prog, i) = {}
        /\ \A k \in 1..Len(newOps[i]) : ~IsDmaStart(newOps[i][k])
    /\ pc = "done" =>
        /\ Count(prog, "copy") = 0
        /\ \A i \in Copies : rewrites[i] = 1
        /\ Count(prog, "slot_alloc") = Cardinality(Copies)
        /\ Count(prog, "push") = Cardinality(Copies)

C10_Witness ==
    /\ pc = "done"
    /\ Cardinality(Copies) >= 2

====
